---- MODULE Spec2Model ----
(***************************************************************************)
(* Model of dedup.py: scan a directory tree for images, hash them with an  *)
(* external library, ask the library for near-duplicate lists, select the  *)
(* files to keep and to remove, and delete the removed files or only list  *)
(* them (dry run).                                                         *)
(*                                                                         *)
(* A path is modelled by its rank in the lexicographic order of the path   *)
(* strings: path 1 sorts before path 2, and so on.  File 0 is a file whose *)
(* suffix is not in the allow-list.                                        *)
(***************************************************************************)
EXTENDS Integers, Sequences, FiniteSets, TLC

\* ---- bounds ----
MaxPaths == 3      \* number of image paths in the tree
MaxEntries == 3    \* total number of entries in all duplicate lists

Paths == 1..MaxPaths
AllFiles == 0..MaxPaths

VARIABLES
    pc,                \* position in main / find_and_process_duplicates
    fs,                \* files that exist on the filesystem
    delete_mode,       \* args.delete
    image_paths,       \* result of get_image_files
    encodings,         \* keys of the encoding map
    duplicates,        \* duplicate map: path -> list of paths
    sorted_filenames,  \* sorted(duplicates.keys())
    i,                 \* index of the outer loop in sorted_filenames
    j,                 \* index of the inner loop in dups (0: before line 100)
    files_to_remove,
    kept_files,
    report,            \* the three counts of the result summary
    pending,           \* paths the action loop has still to visit
    deleted,           \* paths reported "Deleted:"
    failed,            \* paths reported "Error deleting"
    attempts,          \* number of os.remove calls per path
    would_delete       \* paths reported "Would delete:"

vars == <<pc, fs, delete_mode, image_paths, encodings, duplicates,
          sorted_filenames, i, j, files_to_remove, kept_files, report,
          pending, deleted, failed, attempts, would_delete>>

\* ---- helpers ----
Range(s) == {s[k] : k \in DOMAIN s}

SeqsUpTo(S, n) == UNION {[1..k -> S] : k \in 0..n}

Perms(S) == {s \in [1..Cardinality(S) -> S] : \A a \in S : \E k \in DOMAIN s : s[k] = a}

RECURSIVE Reverse(_)
Reverse(s) == IF s = <<>> THEN <<>> ELSE Append(Reverse(Tail(s)), Head(s))

RECURSIVE DescendingSeq(_)
DescendingSeq(S) ==
    IF S = {} THEN <<>>
    ELSE LET m == CHOOSE x \in S : \A y \in S : y <= x
         IN <<m>> \o DescendingSeq(S \ {m})

\* ---- get_image_files ----
extensions == {".jpg", ".jpeg", ".png", ".bmp", ".tiff", ".webp"}

\* Path(file).suffix of the files of the tree
Suffix(p) == IF p = 0 THEN ".txt" ELSE IF p % 2 = 1 THEN ".JPG" ELSE ".png"

\* str.lower on the suffixes that occur
Lower(s) == IF s = ".JPG" THEN ".jpg" ELSE s

get_image_files(files) == {p \in files : Lower(Suffix(p)) \in extensions}

\* ---- sorted() ----
RECURSIVE Insert(_, _)
Insert(x, s) ==
    IF s = <<>> THEN <<x>>
    ELSE IF x <= Head(s) THEN <<x>> \o s
    ELSE <<Head(s)>> \o Insert(x, Tail(s))

RECURSIVE InsertionSort(_)
InsertionSort(s) == IF s = <<>> THEN <<>> ELSE Insert(Head(s), InsertionSort(Tail(s)))

SortKeys_asPresented(keys) == keys

\* line 96: sorted(duplicates.keys())
SortKeys(keys) == InsertionSort(keys)

\* ---- hasher.find_duplicates: every map over the encoded paths ----
RECURSIVE DupMaps(_, _, _)
DupMaps(keys, dom, budget) ==
    IF keys = {} THEN {<<>>}
    ELSE LET k == CHOOSE x \in keys : TRUE
         IN UNION {{(k :> s) @@ m : m \in DupMaps(keys \ {k}, dom, budget - Len(s))}
                   : s \in SeqsUpTo(dom, budget)}

\* ---- the selection loop, lines 98-114 ----
SkipKey_never(filename, removed) == FALSE

\* line 100
SkipKey(filename, removed) == filename \in removed

ShouldRemove_noKept(dup, filename, removed, kept) ==
    dup # filename /\ dup \notin removed

ShouldRemove_onlyNew(dup, filename, removed, kept) ==
    dup \notin removed

\* line 113
ShouldRemove(dup, filename, removed, kept) ==
    dup # filename /\ dup \notin removed /\ dup \notin kept

KeepOriginal_forgotten(kept, filename) == kept

\* line 109
KeepOriginal(kept, filename) == kept \cup {filename}

\* lines 112-114 as a function of the list
RECURSIVE MarkAll(_, _, _, _)
MarkAll(dups, filename, removed, kept) ==
    IF dups = <<>> THEN removed
    ELSE MarkAll(Tail(dups), filename,
                 IF ShouldRemove(Head(dups), filename, removed, kept)
                 THEN removed \cup {Head(dups)} ELSE removed,
                 kept)

\* lines 98-114 as a function of the key order and the map: <<kept, removed>>
RECURSIVE SelectionLoop(_, _, _, _)
SelectionLoop(keys, map, removed, kept) ==
    IF keys = <<>> THEN <<kept, removed>>
    ELSE LET filename == Head(keys)
             dups == map[filename]
         IN IF SkipKey(filename, removed) \/ dups = <<>>
            THEN SelectionLoop(Tail(keys), map, removed, kept)
            ELSE SelectionLoop(Tail(keys), map,
                               MarkAll(dups, filename, removed, KeepOriginal(kept, filename)),
                               KeepOriginal(kept, filename))

\* ---- the action phase, lines 122-137 ----
DoDelete_always(mode) == TRUE

\* line 125
DoDelete(mode) == mode

DeleteTargets_kept(removed, kept) == kept

\* line 127
DeleteTargets(removed, kept) == removed

AfterOSError_abort(rest) == {}

\* lines 131-132: the error is printed and the loop goes on
AfterOSError(rest) == rest

\* os.remove: the file is unlinked, or OSError is raised and it stays
os_remove(files, p, ok) == IF ok THEN files \ {p} ELSE files

\* ---- initial state: the tree and the command line ----
Init ==
    /\ pc = "scan"
    /\ fs \in SUBSET AllFiles
    /\ delete_mode \in BOOLEAN
    /\ image_paths = {}
    /\ encodings = {}
    /\ duplicates = <<>>
    /\ sorted_filenames = <<>>
    /\ i = 1
    /\ j = 0
    /\ files_to_remove = {}
    /\ kept_files = {}
    /\ report = <<>>
    /\ pending = {}
    /\ deleted = {}
    /\ failed = {}
    /\ attempts = [p \in AllFiles |-> 0]
    /\ would_delete = {}

\* main, lines 147-151
Scan ==
    /\ pc = "scan"
    /\ image_paths' = get_image_files(fs)
    /\ pc' = IF image_paths' = {} THEN "exit" ELSE "encode"
    /\ UNCHANGED <<fs, delete_mode, encodings, duplicates, sorted_filenames, i, j,
                   files_to_remove, kept_files, report, pending, deleted, failed,
                   attempts, would_delete>>

\* generate_encodings: the paths whose encode_image raises are left out
GenerateEncodings ==
    /\ pc = "encode"
    /\ \E bad \in SUBSET image_paths : encodings' = image_paths \ bad
    /\ pc' = "find"
    /\ UNCHANGED <<fs, delete_mode, image_paths, duplicates, sorted_filenames, i, j,
                   files_to_remove, kept_files, report, pending, deleted, failed,
                   attempts, would_delete>>

\* lines 89-96: the library returns a map, in some key order; the keys are sorted
FindDuplicates ==
    /\ pc = "find"
    /\ \E m \in DupMaps(encodings, encodings, MaxEntries) :
       \E keysView \in Perms(encodings) :
          /\ duplicates' = m
          /\ sorted_filenames' = SortKeys(keysView)
    /\ files_to_remove' = {}
    /\ kept_files' = {}
    /\ i' = 1
    /\ j' = 0
    /\ pc' = "select"
    /\ UNCHANGED <<fs, delete_mode, image_paths, encodings, report, pending, deleted,
                   failed, attempts, would_delete>>

AtKey == pc = "select" /\ i <= Len(sorted_filenames)
filename == sorted_filenames[i]
dups == duplicates[filename]

\* lines 100-101
SkipRemoved ==
    /\ AtKey /\ j = 0
    /\ SkipKey(filename, files_to_remove)
    /\ i' = i + 1
    /\ UNCHANGED <<pc, fs, delete_mode, image_paths, encodings, duplicates,
                   sorted_filenames, j, files_to_remove, kept_files, report, pending,
                   deleted, failed, attempts, would_delete>>

\* lines 103-106
SkipEmpty ==
    /\ AtKey /\ j = 0
    /\ ~SkipKey(filename, files_to_remove)
    /\ dups = <<>>
    /\ i' = i + 1
    /\ UNCHANGED <<pc, fs, delete_mode, image_paths, encodings, duplicates,
                   sorted_filenames, j, files_to_remove, kept_files, report, pending,
                   deleted, failed, attempts, would_delete>>

\* lines 103-109
Keep ==
    /\ AtKey /\ j = 0
    /\ ~SkipKey(filename, files_to_remove)
    /\ dups # <<>>
    /\ kept_files' = KeepOriginal(kept_files, filename)
    /\ j' = 1
    /\ UNCHANGED <<pc, fs, delete_mode, image_paths, encodings, duplicates,
                   sorted_filenames, i, files_to_remove, report, pending, deleted,
                   failed, attempts, would_delete>>

\* lines 112-114, one iteration
MarkDup ==
    /\ AtKey /\ j >= 1
    /\ files_to_remove' = IF ShouldRemove(dups[j], filename, files_to_remove, kept_files)
                          THEN files_to_remove \cup {dups[j]}
                          ELSE files_to_remove
    /\ IF j = Len(dups) THEN i' = i + 1 /\ j' = 0
                        ELSE i' = i /\ j' = j + 1
    /\ UNCHANGED <<pc, fs, delete_mode, image_paths, encodings, duplicates,
                   sorted_filenames, kept_files, report, pending, deleted, failed,
                   attempts, would_delete>>

\* lines 117-125
Summary ==
    /\ pc = "select" /\ i > Len(sorted_filenames)
    /\ report' = <<Cardinality(encodings),
                   Cardinality(encodings) - Cardinality(files_to_remove),
                   Cardinality(files_to_remove)>>
    /\ IF Cardinality(files_to_remove) = 0
       THEN pc' = "done" /\ pending' = pending
       ELSE IF DoDelete(delete_mode)
            THEN pc' = "delete" /\ pending' = DeleteTargets(files_to_remove, kept_files)
            ELSE pc' = "dryrun" /\ pending' = pending
    /\ UNCHANGED <<fs, delete_mode, image_paths, encodings, duplicates,
                   sorted_filenames, i, j, files_to_remove, kept_files, deleted, failed,
                   attempts, would_delete>>

\* lines 127-132, one iteration; a set is iterated in an order the code does not fix
DeleteFile ==
    /\ pc = "delete"
    /\ \E file_path \in pending : \E ok \in BOOLEAN :
          LET rest == IF ok THEN pending \ {file_path}
                      ELSE AfterOSError(pending \ {file_path})
          IN /\ fs' = os_remove(fs, file_path, ok)
             /\ attempts' = [attempts EXCEPT ![file_path] = @ + 1]
             /\ deleted' = IF ok THEN deleted \cup {file_path} ELSE deleted
             /\ failed' = IF ok THEN failed ELSE failed \cup {file_path}
             /\ pending' = rest
             /\ pc' = IF rest = {} THEN "done" ELSE "delete"
    /\ UNCHANGED <<delete_mode, image_paths, encodings, duplicates, sorted_filenames,
                   i, j, files_to_remove, kept_files, report, would_delete>>

\* lines 134-137
DryRun ==
    /\ pc = "dryrun"
    /\ would_delete' = files_to_remove
    /\ pc' = "done"
    /\ UNCHANGED <<fs, delete_mode, image_paths, encodings, duplicates,
                   sorted_filenames, i, j, files_to_remove, kept_files, report, pending,
                   deleted, failed, attempts>>

Next ==
    \/ Scan
    \/ GenerateEncodings
    \/ FindDuplicates
    \/ SkipRemoved
    \/ SkipEmpty
    \/ Keep
    \/ MarkDup
    \/ Summary
    \/ DeleteFile
    \/ DryRun

Spec == Init /\ [][Next]_vars

\* the selection loop has finished
LoopDone ==
    \/ pc = "select" /\ i > Len(sorted_filenames)
    \/ pc \in {"delete", "dryrun", "done"}

\* ---- properties ----

Lists(p, q) == q \in Range(duplicates[p])

\* every path of S lists every other path of S
Mutual(S) == \A p \in S : \A q \in S \ {p} : Lists(p, q)

Lowest(S) == CHOOSE m \in S : \A y \in S : m <= y

\* C1 as stated: when the selection loop has finished, the sizes of kept and
\* removed add up to the number of encoded paths.
C1_KeptPlusRemovedIsAll ==
    LoopDone => Cardinality(kept_files) + Cardinality(files_to_remove) = Cardinality(encodings)

\* C1 amended: when the selection loop has finished, kept and removed are
\* disjoint sets of encoded paths, the encoded paths in neither set are exactly
\* the paths with an empty duplicate list that were not removed, and the
\* reported count of unique images plus the reported count of duplicates is
\* the number of encoded paths.
C1_Classification ==
    LoopDone =>
        /\ kept_files \cap files_to_remove = {}
        /\ kept_files \cup files_to_remove \subseteq encodings
        /\ encodings \ (kept_files \cup files_to_remove)
             = {p \in encodings : duplicates[p] = <<>> /\ p \notin files_to_remove}
        /\ report # <<>> => /\ report[1] = Cardinality(encodings)
                            /\ report[2] + report[3] = report[1]
                            /\ report[3] = Cardinality(files_to_remove)

C1_Witness ==
    /\ pc = "done" /\ report # <<>>
    /\ kept_files # {} /\ files_to_remove # {}
    /\ encodings \ (kept_files \cup files_to_remove) # {}

\* the grouping output A->[B,C], B->[A], C->[] over the paths A < B < C
ScenarioABC ==
    /\ DOMAIN duplicates = {1, 2, 3}
    /\ duplicates[1] = <<2, 3>>
    /\ duplicates[2] = <<1>>
    /\ duplicates[3] = <<>>

\* C2 as stated: on the scenario the loop ends with kept = {A, C} and removed = {B}.
C2_ScenarioKeepsC ==
    (LoopDone /\ ScenarioABC) => kept_files = {1, 3} /\ files_to_remove = {2}

\* C2 amended: on the scenario the loop ends with kept = {A} and removed = {B, C};
\* C is removed because A lists it.
C2_ScenarioRemovesC ==
    (LoopDone /\ ScenarioABC) => kept_files = {1} /\ files_to_remove = {2, 3}

C2_Witness == LoopDone /\ ScenarioABC /\ pc = "select"

\* C3 as stated: in delete mode, after the return, every removed path is absent
\* from the filesystem and every kept path exists, whatever os.remove did.
C3_RemovedAllAbsent ==
    (pc = "done" /\ delete_mode) =>
        /\ files_to_remove \cap fs = {}
        /\ kept_files \subseteq fs

\* C3 amended: in delete mode, after the return, every removed path whose
\* os.remove succeeded is absent, every removed path whose os.remove raised
\* OSError still exists, and every kept path still exists.
C3_RemovedAbsentUnlessError ==
    (pc = "done" /\ delete_mode) =>
        /\ files_to_remove = deleted \cup failed
        /\ deleted \cap fs = {}
        /\ failed \subseteq fs
        /\ kept_files \subseteq fs

C3_Witness ==
    /\ pc = "done" /\ delete_mode
    /\ deleted # {} /\ failed # {} /\ kept_files # {}

\* C4: without --delete no step of the run changes the set of files.
C4_DryRunFrame == [][(~delete_mode) => fs' = fs]_vars

C4_Witness ==
    /\ pc = "done" /\ ~delete_mode
    /\ would_delete # {} /\ would_delete = files_to_remove

\* C5: kept and removed are disjoint in every state and no step takes a path
\* out of either set.
C5_DisjointAndGrowing ==
    [][/\ kept_files' \cap files_to_remove' = {}
       /\ pc = "select" => /\ kept_files \subseteq kept_files'
                           /\ files_to_remove \subseteq files_to_remove']_vars

\* a later key's list names a path that is already kept
C5_Witness ==
    /\ AtKey /\ j >= 1
    /\ dups[j] \in kept_files /\ dups[j] # filename
    /\ files_to_remove # {}

C7_OrderIndependent ==
    LoopDone =>
        <<kept_files, files_to_remove>> =
            SelectionLoop(SortKeys(DescendingSeq(DOMAIN duplicates)),
                          [p \in DOMAIN duplicates |-> Reverse(duplicates[p])],
                          {}, {})

\* a list of two different paths, in descending order, and a non-trivial result
C7_Witness ==
    /\ LoopDone /\ files_to_remove # {}
    /\ \E p \in DOMAIN duplicates :
          Len(duplicates[p]) >= 2 /\ duplicates[p][1] > duplicates[p][2]

\* C8: in delete mode os.remove has been called once on every removed path and
\* on no other path when the function returns, and never twice on any path.
C8_EachRemovedAttemptedOnce ==
    /\ \A p \in AllFiles : attempts[p] <= 1
    /\ (pc = "done" /\ delete_mode) =>
          \A p \in AllFiles : attempts[p] = IF p \in files_to_remove THEN 1 ELSE 0

C8_Witness ==
    /\ pc = "done" /\ delete_mode
    /\ failed # {} /\ Cardinality(files_to_remove) >= 2

\* C9 as stated: the lowest path of every mutually-referencing set of two or
\* more paths is kept and not removed.
C9_LowestOfClusterKept ==
    LoopDone =>
        \A S \in SUBSET (DOMAIN duplicates) :
            (Cardinality(S) >= 2 /\ Mutual(S))
                => Lowest(S) \in kept_files /\ Lowest(S) \notin files_to_remove

\* C9 amended: the lowest path of a mutually-referencing set of two or more
\* paths is kept and not removed when no path sorting before it lists it.
C9_LowestKeptUnlessListedBefore ==
    LoopDone =>
        \A S \in SUBSET (DOMAIN duplicates) :
            (/\ Cardinality(S) >= 2 /\ Mutual(S)
             /\ \A q \in DOMAIN duplicates : q < Lowest(S) => ~Lists(q, Lowest(S)))
                => Lowest(S) \in kept_files /\ Lowest(S) \notin files_to_remove

\* a cluster whose lowest path is listed by a path outside it that sorts later
C9_Witness ==
    /\ LoopDone
    /\ \E S \in SUBSET (DOMAIN duplicates) :
          /\ Cardinality(S) >= 2 /\ Mutual(S)
          /\ \A q \in DOMAIN duplicates : q < Lowest(S) => ~Lists(q, Lowest(S))
          /\ \E q \in DOMAIN duplicates \ S : Lists(q, Lowest(S))
          /\ Lowest(S) \in kept_files

\* C10: every removed path is listed by a different path that is kept.
C10_RemovedHasKeptLister ==
    \A r \in files_to_remove :
        \E k \in kept_files : k # r /\ k \in DOMAIN duplicates /\ Lists(k, r)

C10_Witness ==
    /\ AtKey /\ j >= 1
    /\ Cardinality(files_to_remove) >= 1 /\ Cardinality(kept_files) >= 2
====
